---- MODULE Spec2Model ----
(***************************************************************************)
(* Broadcast delivery engine of whatsapp-massager: the launch form         *)
(* (BroadcastComposer.handleSubmit), the delivery list and broadcast list  *)
(* kept by Home (app/page.tsx), the status aggregator effect and the       *)
(* dispatch effect with its completion timer and effect cleanup.           *)
(*                                                                         *)
(* React is modelled as follows.  A state setter applies to the state      *)
(* variable at once; `effectsPending` records that `deliveries` was        *)
(* replaced by a new array, so the two effects whose dependency list holds *)
(* `deliveries` have to run again.  One Commit step is one commit of       *)
(* React: the cleanup returned by the previous run of the dispatch effect, *)
(* then the aggregator effect, then the dispatch effect.  Timers are       *)
(* asynchronous callbacks: an armed timer may fire at any step.            *)
(* Strings the code trims or compares are sequences of characters.         *)
(* createdAt, startedAt and completedAt are written and never read by the  *)
(* code; they are recorded as present (IsoStamp) or absent (Undefined).    *)
(* Init is the page mounted on a browser whose storage holds two opted-in  *)
(* contacts and no template, broadcast or delivery; the specifications     *)
(* further down mount it on other stored values.                           *)
(***************************************************************************)
EXTENDS Integers, Sequences, FiniteSets, TLC

VARIABLES
    contacts,               \* Home: contacts (usePersistentState "wm.contacts")
    templates,              \* Home: templates, newest first
    selectedTemplateId,     \* Home: selectedTemplateId
    broadcasts,             \* Home: broadcasts, newest first
    deliveries,             \* Home: deliveries, in creation order
    broadcastLabel,         \* Home: broadcastLabel
    message,                \* Home: message
    scheduledFor,           \* Home: scheduledFor of the form
    audienceTag,            \* Home: audienceTag
    audienceMode,           \* BroadcastComposer: audienceMode
    acknowledgedCompliance, \* BroadcastComposer: acknowledgedCompliance
    processingRef,          \* Home: processingRef.current
    timers,                 \* armed window.setTimeout callbacks of the dispatch effect
    cleanup,                \* timer handles held by the cleanup function of the last dispatch effect run
    effectsPending,         \* deliveries changed since the effects last ran
    clock,                  \* Date.now()
    now,                    \* Home: now (set by the 15 s interval)
    nextId,                 \* source of nanoid() values
    lastSubmit              \* outcome of the step when it was a form submission

vars == <<contacts, templates, selectedTemplateId, broadcasts, deliveries,
          broadcastLabel, message, scheduledFor, audienceTag, audienceMode,
          acknowledgedCompliance, processingRef, timers, cleanup, effectsPending,
          clock, now, nextId, lastSubmit>>

\* ---------------------------------------------------------------- bounds
MaxBroadcasts == 2
MaxFormBroadcasts == 1
MaxSteps == 2

MaxContacts == 3

MaxAggTasks == 2

MaxPieces == 2

MaxAdded == 3
MaxBatch == 2

MaxTemplateAdds == 3

\* ------------------------------------------------------------- constants
Lookahead == 500
Null == -1
Undefined == "undefined"
IsoStamp == "iso"
NullTag == << >>
Custom == 0
WhitespaceChars == {" ", "\t", "\n"}
SendErrorMessage == "WhatsApp API returned a temporary error. Retry later."
FollowUpLabel ==
    <<"F","o","l","l","o","w","-","u","p"," ","b","r","o","a","d","c","a","s","t">>
DefaultLabel ==
    <<"W","h","a","t","s","A","p","p"," ","b","r","o","a","d","c","a","s","t">>

\* ------------------------------------------------------------ input sets
LabelInputs == { <<" ">>, <<" ","Q","2">> }
MessageInputs == { <<" ">>, <<"H","i">> }
EngineMessageInputs == { <<"H","i">> }
ScheduleInputs == { Null, 2 * Lookahead }
TagVip == <<"v","i","p">>
TagInputs == { NullTag, TagVip }

SeedContacts ==
    << [id |-> 1, name |-> <<"D","a","n","a"," ","L","e","e">>,
        phone |-> <<"+","1","4","1","5">>, tags |-> << <<"V","I","P">> >>,
        optIn |-> TRUE],
       [id |-> 2, name |-> <<"B","o">>,
        phone |-> <<"+","4","4","2","0">>, tags |-> << >>,
        optIn |-> TRUE] >>

FirstNewId == Len(SeedContacts) + 1

\* --------------------------------------------------------------- strings
RECURSIVE TrimStart(_)
TrimStart(s) ==
    IF s # << >> /\ Head(s) \in WhitespaceChars THEN TrimStart(Tail(s)) ELSE s

RECURSIVE TrimEnd(_)
TrimEnd(s) ==
    IF s # << >> /\ s[Len(s)] \in WhitespaceChars
    THEN TrimEnd(SubSeq(s, 1, Len(s) - 1)) ELSE s

\* Variant of Trim: the text is taken as typed.
TrimNone(s) == s

Trim(s) == TrimEnd(TrimStart(s))

UpperChars ==
    <<"A","B","C","D","E","F","G","H","I","J","K","L","M",
      "N","O","P","Q","R","S","T","U","V","W","X","Y","Z">>

LowerChars ==
    <<"a","b","c","d","e","f","g","h","i","j","k","l","m",
      "n","o","p","q","r","s","t","u","v","w","x","y","z">>

LowerOf ==
    [c \in {UpperChars[i] : i \in 1..Len(UpperChars)} |->
        LowerChars[CHOOSE i \in 1..Len(UpperChars) : UpperChars[i] = c]]

ToLowerCase(s) == [i \in 1..Len(s) |-> IF s[i] \in DOMAIN LowerOf THEN LowerOf[s[i]] ELSE s[i]]

\* String.prototype.includes
Includes(s, sub) ==
    \E i \in 0..(Len(s) - Len(sub)) : SubSeq(s, i + 1, i + Len(sub)) = sub

\* ------------------------------------------------------- personalisation
WordFirstName == <<"f","i","r","s","t","n","a","m","e">>
WordFullName == <<"f","u","l","l","n","a","m","e">>
WordCompany == <<"c","o","m","p","a","n","y">>
WordNotes == <<"n","o","t","e","s">>
WordTag == <<"t","a","g">>
WordPhone == <<"p","h","o","n","e">>
YourTeam == <<"y","o","u","r"," ","t","e","a","m">>

\* contact.name.trim().split(" ")[0]: the text before the first space
firstName(contact) ==
    LET name == Trim(contact.name)
        spaces == {i \in 1..Len(name) : name[i] = " "}
    IN  IF spaces = {} THEN name
        ELSE SubSeq(name, 1, (CHOOSE i \in spaces : \A j \in spaces : i <= j) - 1)

\* tags.find((tag) => tag.toLowerCase().includes("company")) ?? tags[0] ?? "your team"
company(contact) ==
    LET found == {i \in 1..Len(contact.tags) :
                     Includes(ToLowerCase(contact.tags[i]), WordCompany)}
    IN  IF found # {}
        THEN contact.tags[CHOOSE i \in found : \A j \in found : i <= j]
        ELSE IF Len(contact.tags) > 0 THEN contact.tags[1]
        ELSE YourTeam

\* contact.notes ?? "": notes is an optional field
NotesOf(contact) == IF "notes" \in DOMAIN contact THEN contact.notes ELSE << >>

\* contact.tags[0] ?? ""
FirstTagOf(contact) == IF Len(contact.tags) > 0 THEN contact.tags[1] ELSE << >>

\* \s*: the first position from i on that holds no whitespace character
RECURSIVE SkipSpace(_, _)
SkipSpace(s, i) ==
    IF i <= Len(s) /\ s[i] \in WhitespaceChars THEN SkipSpace(s, i + 1) ELSE i

\* /{{\s*word\s*}}/i tried at position i: the position of the last character
\* of the match, 0 when there is no match at i
MatchEnd(s, i, word) ==
    IF i + 1 <= Len(s) /\ s[i] = "{" /\ s[i + 1] = "{"
    THEN LET a == SkipSpace(s, i + 2)
             b == a + Len(word)
         IN  IF b - 1 <= Len(s) /\ ToLowerCase(SubSeq(s, a, b - 1)) = word
             THEN LET c == SkipSpace(s, b)
                  IN  IF c + 1 <= Len(s) /\ s[c] = "}" /\ s[c + 1] = "}"
                      THEN c + 1 ELSE 0
             ELSE 0
    ELSE 0

\* The replacement text of String.prototype.replace: $$ stands for $, $& for
\* the match, $` for the text before the match and $' for the text after it.
RECURSIVE Expand(_, _, _, _)
Expand(value, matched, before, after) ==
    IF value = << >> THEN << >>
    ELSE IF Len(value) >= 2 /\ value[1] = "$" /\ value[2] \in {"$", "&", "`", "'"}
    THEN (CASE value[2] = "$" -> <<"$">>
            [] value[2] = "&" -> matched
            [] value[2] = "`" -> before
            [] value[2] = "'" -> after)
         \o Expand(SubSeq(value, 3, Len(value)), matched, before, after)
    ELSE <<value[1]>> \o Expand(Tail(value), matched, before, after)

\* replace with the g flag, from position i on: matches are taken from left
\* to right and the inserted text is not searched again
RECURSIVE ReplaceFrom(_, _, _, _)
ReplaceFrom(s, i, word, value) ==
    IF i > Len(s) THEN << >>
    ELSE LET e == MatchEnd(s, i, word)
         IN  IF e # 0
             THEN Expand(value, SubSeq(s, i, e), SubSeq(s, 1, i - 1),
                         SubSeq(s, e + 1, Len(s)))
                  \o ReplaceFrom(s, e + 1, word, value)
             ELSE <<s[i]>> \o ReplaceFrom(s, i + 1, word, value)

Replace(s, word, value) == ReplaceFrom(s, 1, word, value)

personaliseMessage(template, contact) ==
    LET r1 == Replace(template, WordFirstName, firstName(contact))
        r2 == Replace(r1, WordFullName, contact.name)
        r3 == Replace(r2, WordCompany, company(contact))
        r4 == Replace(r3, WordNotes, NotesOf(contact))
        r5 == Replace(r4, WordTag, FirstTagOf(contact))
    IN  Replace(r5, WordPhone, contact.phone)

\* ---------------------------------------------------- audience resolution
\* Variant of OptedIn: every contact counts as opted in.
OptedInAny(contact) == TRUE

OptedIn(contact) == contact.optIn

optedInContacts == SelectSeq(contacts, OptedIn)

\* Variant of HasTag: the tags are compared as written.
HasTagExact(contact, tag) ==
    \E i \in 1..Len(contact.tags) : contact.tags[i] = tag

HasTag(contact, tag) ==
    \E i \in 1..Len(contact.tags) : ToLowerCase(contact.tags[i]) = ToLowerCase(tag)

HasAudienceTag(contact) == HasTag(contact, audienceTag)

\* Variant of filteredContacts: without a tag filter the whole contact list is taken.
filteredContactsOfAllContacts ==
    IF audienceMode = "tag" /\ audienceTag # NullTag
    THEN SelectSeq(optedInContacts, HasAudienceTag)
    ELSE contacts

filteredContacts ==
    IF audienceMode = "tag" /\ audienceTag # NullTag
    THEN SelectSeq(optedInContacts, HasAudienceTag)
    ELSE optedInContacts

\* ------------------------------------------------------------ launch form
isProcessing == \E i \in 1..Len(deliveries) : deliveries[i].status = "sending"

submitDisabled ==
    \/ isProcessing
    \/ Len(filteredContacts) = 0
    \/ Len(Trim(message)) = 0
    \/ Len(Trim(broadcastLabel)) = 0
    \/ ~acknowledgedCompliance
    \/ (audienceMode = "tag" /\ audienceTag = NullTag)

handleSubmitRejects ==
    \/ Trim(broadcastLabel) = << >>
    \/ Trim(message) = << >>
    \/ ~acknowledgedCompliance
    \/ Len(filteredContacts) = 0

\* The index in `templates` of the first template with the given id, 0 when
\* there is none (templates.find ... ?? null).
FindTemplate(list, id) ==
    IF \E i \in 1..Len(list) : list[i].id = id
    THEN CHOOSE i \in 1..Len(list) :
            /\ list[i].id = id
            /\ \A j \in 1..(i - 1) : list[j].id # id
    ELSE 0

\* selectedTemplate?.id ?? "custom"
selectedTemplateOrCustom ==
    IF FindTemplate(templates, selectedTemplateId) # 0 THEN selectedTemplateId ELSE Custom

\* The effect of BroadcastComposer on a render with the given message,
\* templates and selected template id: an empty message is replaced by the
\* body of the selected template.
MessageAfterEffect(text, list, id) ==
    IF FindTemplate(list, id) # 0 /\ Len(text) = 0
    THEN list[FindTemplate(list, id)].body
    ELSE text

\* Variant of NewBroadcast: totalRecipients counts every opted-in contact.
NewBroadcastCountingOptedIn(id) ==
    [id |-> id,
     label |-> Trim(broadcastLabel),
     templateId |-> selectedTemplateOrCustom,
     target |-> IF audienceMode = "tag"
                THEN [tag |-> audienceTag]
                ELSE [contactIds |-> [i \in 1..Len(filteredContacts) |-> filteredContacts[i].id]],
     scheduledFor |-> scheduledFor,
     createdAt |-> IsoStamp,
     status |-> IF scheduledFor # Null THEN "scheduled" ELSE "in_progress",
     totalRecipients |-> Len(optedInContacts),
     delivered |-> 0,
     failed |-> 0]

NewBroadcast(id) ==
    [id |-> id,
     label |-> Trim(broadcastLabel),
     templateId |-> selectedTemplateOrCustom,
     target |-> IF audienceMode = "tag"
                THEN [tag |-> audienceTag]
                ELSE [contactIds |-> [i \in 1..Len(filteredContacts) |-> filteredContacts[i].id]],
     scheduledFor |-> scheduledFor,
     createdAt |-> IsoStamp,
     status |-> IF scheduledFor # Null THEN "scheduled" ELSE "in_progress",
     totalRecipients |-> Len(filteredContacts),
     delivered |-> 0,
     failed |-> 0]

\* Variant of NewDeliveries: the entries are created without a schedule.
NewDeliveriesUnscheduled(broadcastId, firstId) ==
    [i \in 1..Len(filteredContacts) |->
        [id |-> firstId + i - 1,
         broadcastId |-> broadcastId,
         contactId |-> filteredContacts[i].id,
         contactName |-> filteredContacts[i].name,
         phone |-> filteredContacts[i].phone,
         scheduledFor |-> Null,
         status |-> "pending",
         preview |-> personaliseMessage(message, filteredContacts[i]),
         startedAt |-> Undefined,
         completedAt |-> Undefined,
         error |-> Undefined]]

NewDeliveries(broadcastId, firstId) ==
    [i \in 1..Len(filteredContacts) |->
        [id |-> firstId + i - 1,
         broadcastId |-> broadcastId,
         contactId |-> filteredContacts[i].id,
         contactName |-> filteredContacts[i].name,
         phone |-> filteredContacts[i].phone,
         scheduledFor |-> scheduledFor,
         status |-> "pending",
         preview |-> personaliseMessage(message, filteredContacts[i]),
         startedAt |-> Undefined,
         completedAt |-> Undefined,
         error |-> Undefined]]

\* Variant of AppendDeliveries: new entries go to the front, as new broadcasts do.
PrependDeliveries(prev, deliveryEntries) == deliveryEntries \o prev

\* handleLaunchBroadcast: setDeliveries((prev) => [...prev, ...deliveryEntries])
AppendDeliveries(prev, deliveryEntries) == prev \o deliveryEntries

SetBroadcastLabel(v) ==
    /\ broadcastLabel' = v
    /\ lastSubmit' = "none"
    /\ UNCHANGED <<contacts, broadcasts, deliveries, message, scheduledFor, audienceTag,
                   audienceMode, acknowledgedCompliance, processingRef, timers, cleanup,
                   effectsPending, clock, now, nextId, templates, selectedTemplateId>>

SetMessage(v) ==
    /\ message' = MessageAfterEffect(v, templates, selectedTemplateId)
    /\ lastSubmit' = "none"
    /\ UNCHANGED <<contacts, broadcasts, deliveries, broadcastLabel, scheduledFor,
                   audienceTag, audienceMode, acknowledgedCompliance, processingRef,
                   timers, cleanup, effectsPending, clock, now, nextId, templates,
                   selectedTemplateId>>

handleScheduleChange(v) ==
    /\ scheduledFor' = v
    /\ lastSubmit' = "none"
    /\ UNCHANGED <<contacts, broadcasts, deliveries, broadcastLabel, message, audienceTag,
                   audienceMode, acknowledgedCompliance, processingRef, timers, cleanup,
                   effectsPending, clock, now, nextId, templates, selectedTemplateId>>

SetAudienceTag(v) ==
    /\ audienceTag' = v
    /\ lastSubmit' = "none"
    /\ UNCHANGED <<contacts, broadcasts, deliveries, broadcastLabel, message, scheduledFor,
                   audienceMode, acknowledgedCompliance, processingRef, timers, cleanup,
                   effectsPending, clock, now, nextId, templates, selectedTemplateId>>

SetAudienceMode(m) ==
    /\ audienceMode' = m
    /\ lastSubmit' = "none"
    /\ UNCHANGED <<contacts, broadcasts, deliveries, broadcastLabel, message, scheduledFor,
                   audienceTag, acknowledgedCompliance, processingRef, timers, cleanup,
                   effectsPending, clock, now, nextId, templates, selectedTemplateId>>

SetAcknowledgedCompliance(b) ==
    /\ acknowledgedCompliance' = b
    /\ lastSubmit' = "none"
    /\ UNCHANGED <<contacts, broadcasts, deliveries, broadcastLabel, message, scheduledFor,
                   audienceTag, audienceMode, processingRef, timers, cleanup,
                   effectsPending, clock, now, nextId, templates, selectedTemplateId>>

handleToggleOptIn(id, optIn) ==
    /\ contacts' = [i \in 1..Len(contacts) |->
                      IF contacts[i].id = id
                      THEN [contacts[i] EXCEPT !.optIn = optIn]
                      ELSE contacts[i]]
    /\ lastSubmit' = "none"
    /\ UNCHANGED <<broadcasts, deliveries, broadcastLabel, message, scheduledFor,
                   audienceTag, audienceMode, acknowledgedCompliance, processingRef,
                   timers, cleanup, effectsPending, clock, now, nextId, templates,
                   selectedTemplateId>>

\* The submit event of the form.  The submit button is disabled while
\* submitDisabled holds, so the event reaches handleSubmit only otherwise;
\* handleSubmit then applies its own checks before it launches.
\* Variant of handleSubmit: a launch leaves the acknowledgement as it is.
handleSubmitKeepingAcknowledgement ==
    IF submitDisabled \/ handleSubmitRejects
    THEN /\ lastSubmit' = "rejected"
         /\ UNCHANGED <<contacts, broadcasts, deliveries, broadcastLabel, message,
                        scheduledFor, audienceTag, audienceMode, acknowledgedCompliance,
                        processingRef, timers, cleanup, effectsPending, clock, now, nextId,
                        templates, selectedTemplateId>>
    ELSE /\ broadcasts' = <<NewBroadcast(nextId)>> \o broadcasts
         /\ deliveries' = AppendDeliveries(deliveries, NewDeliveries(nextId, nextId + 1))
         /\ message' = MessageAfterEffect(<< >>, templates, selectedTemplateId)
         /\ broadcastLabel' = FollowUpLabel
         /\ scheduledFor' = Null
         /\ nextId' = nextId + 1 + Len(filteredContacts)
         /\ effectsPending' = TRUE
         /\ lastSubmit' = "launched"
         /\ UNCHANGED <<contacts, audienceTag, audienceMode, acknowledgedCompliance,
                        processingRef, timers, cleanup, clock, now, templates,
                        selectedTemplateId>>

handleSubmit ==
    IF submitDisabled \/ handleSubmitRejects
    THEN /\ lastSubmit' = "rejected"
         /\ UNCHANGED <<contacts, broadcasts, deliveries, broadcastLabel, message,
                        scheduledFor, audienceTag, audienceMode, acknowledgedCompliance,
                        processingRef, timers, cleanup, effectsPending, clock, now, nextId,
                        templates, selectedTemplateId>>
    ELSE /\ broadcasts' = <<NewBroadcast(nextId)>> \o broadcasts
         /\ deliveries' = AppendDeliveries(deliveries, NewDeliveries(nextId, nextId + 1))
         /\ message' = MessageAfterEffect(<< >>, templates, selectedTemplateId)
         /\ broadcastLabel' = FollowUpLabel
         /\ scheduledFor' = Null
         /\ acknowledgedCompliance' = FALSE
         /\ nextId' = nextId + 1 + Len(filteredContacts)
         /\ effectsPending' = TRUE
         /\ lastSubmit' = "launched"
         /\ UNCHANGED <<contacts, audienceTag, audienceMode, processingRef, timers,
                        cleanup, clock, now, templates, selectedTemplateId>>

\* ------------------------------------------------------ status aggregator
\* Variant of CountStatus: every entry is counted.
CountAnyStatus(entries, st) == Len(entries)

CountStatus(entries, st) ==
    Cardinality({i \in 1..Len(entries) : entries[i].status = st})

\* Variant of Aggregate: only a task in `sending` keeps the broadcast in progress.
AggregateIgnoringPending(broadcast, entries) ==
    LET related(entry) == entry.broadcastId = broadcast.id
        relatedEntries == SelectSeq(entries, related)
        delivered == CountStatus(relatedEntries, "delivered")
        failed == CountStatus(relatedEntries, "failed")
        inFlight == \E i \in 1..Len(relatedEntries) :
                        relatedEntries[i].status \in {"pending", "sending"}
        status == IF failed = Len(relatedEntries) /\ delivered = 0 THEN "failed"
                  ELSE IF \E i \in 1..Len(relatedEntries) : relatedEntries[i].status = "sending"
                       THEN "in_progress"
                  ELSE "completed"
    IN  IF Len(relatedEntries) = 0 THEN broadcast
        ELSE IF status = broadcast.status /\ delivered = broadcast.delivered
                /\ failed = broadcast.failed
             THEN broadcast
             ELSE [broadcast EXCEPT !.delivered = delivered, !.failed = failed,
                                    !.status = status]

\* Variant of Aggregate: one failed task makes the broadcast failed.
AggregateFailedOnAnyFailure(broadcast, entries) ==
    LET related(entry) == entry.broadcastId = broadcast.id
        relatedEntries == SelectSeq(entries, related)
        delivered == CountStatus(relatedEntries, "delivered")
        failed == CountStatus(relatedEntries, "failed")
        inFlight == \E i \in 1..Len(relatedEntries) :
                        relatedEntries[i].status \in {"pending", "sending"}
        status == IF failed > 0 THEN "failed"
                  ELSE IF inFlight THEN "in_progress"
                  ELSE IF delivered + failed >= Len(relatedEntries) THEN "completed"
                  ELSE IF broadcast.scheduledFor # Null THEN "scheduled"
                  ELSE broadcast.status
    IN  IF Len(relatedEntries) = 0 THEN broadcast
        ELSE IF status = broadcast.status /\ delivered = broadcast.delivered
                /\ failed = broadcast.failed
             THEN broadcast
             ELSE [broadcast EXCEPT !.delivered = delivered, !.failed = failed,
                                    !.status = status]

\* Variant of Aggregate: a pending task does not count as in flight.
AggregateInFlightOnlySending(broadcast, entries) ==
    LET related(entry) == entry.broadcastId = broadcast.id
        relatedEntries == SelectSeq(entries, related)
        delivered == CountStatus(relatedEntries, "delivered")
        failed == CountStatus(relatedEntries, "failed")
        inFlight == \E i \in 1..Len(relatedEntries) :
                        relatedEntries[i].status \in {"pending", "sending"}
        status == IF failed = Len(relatedEntries) /\ delivered = 0 THEN "failed"
                  ELSE IF \E i \in 1..Len(relatedEntries) : relatedEntries[i].status = "sending"
                       THEN "in_progress"
                  ELSE IF delivered + failed >= Len(relatedEntries) THEN "completed"
                  ELSE IF broadcast.scheduledFor # Null THEN "scheduled"
                  ELSE broadcast.status
    IN  IF Len(relatedEntries) = 0 THEN broadcast
        ELSE IF status = broadcast.status /\ delivered = broadcast.delivered
                /\ failed = broadcast.failed
             THEN broadcast
             ELSE [broadcast EXCEPT !.delivered = delivered, !.failed = failed,
                                    !.status = status]

\* Variant of Aggregate: the test for `failed` asks for a delivered task.
AggregateFailedNeedsDelivered(broadcast, entries) ==
    LET related(entry) == entry.broadcastId = broadcast.id
        relatedEntries == SelectSeq(entries, related)
        delivered == CountStatus(relatedEntries, "delivered")
        failed == CountStatus(relatedEntries, "failed")
        inFlight == \E i \in 1..Len(relatedEntries) :
                        relatedEntries[i].status \in {"pending", "sending"}
        status == IF failed = Len(relatedEntries) /\ delivered # 0 THEN "failed"
                  ELSE IF inFlight THEN "in_progress"
                  ELSE IF delivered + failed >= Len(relatedEntries) THEN "completed"
                  ELSE IF broadcast.scheduledFor # Null THEN "scheduled"
                  ELSE broadcast.status
    IN  IF Len(relatedEntries) = 0 THEN broadcast
        ELSE IF status = broadcast.status /\ delivered = broadcast.delivered
                /\ failed = broadcast.failed
             THEN broadcast
             ELSE [broadcast EXCEPT !.delivered = delivered, !.failed = failed,
                                    !.status = status]

\* Variant of Aggregate: the counts are added to the stored counts.
AggregateAccumulating(broadcast, entries) ==
    LET related(entry) == entry.broadcastId = broadcast.id
        relatedEntries == SelectSeq(entries, related)
        delivered == broadcast.delivered + CountStatus(relatedEntries, "delivered")
        failed == broadcast.failed + CountStatus(relatedEntries, "failed")
        inFlight == \E i \in 1..Len(relatedEntries) :
                        relatedEntries[i].status \in {"pending", "sending"}
        status == IF failed = Len(relatedEntries) /\ delivered = 0 THEN "failed"
                  ELSE IF inFlight THEN "in_progress"
                  ELSE IF delivered + failed >= Len(relatedEntries) THEN "completed"
                  ELSE IF broadcast.scheduledFor # Null THEN "scheduled"
                  ELSE broadcast.status
    IN  IF Len(relatedEntries) = 0 THEN broadcast
        ELSE IF status = broadcast.status /\ delivered = broadcast.delivered
                /\ failed = broadcast.failed
             THEN broadcast
             ELSE [broadcast EXCEPT !.delivered = delivered, !.failed = failed,
                                    !.status = status]

\* Variant of Aggregate: totalRecipients is rewritten as the number of
\* entries that have an outcome.
AggregateRecountingRecipients(broadcast, entries) ==
    LET related(entry) == entry.broadcastId = broadcast.id
        relatedEntries == SelectSeq(entries, related)
        delivered == CountStatus(relatedEntries, "delivered")
        failed == CountStatus(relatedEntries, "failed")
        inFlight == \E i \in 1..Len(relatedEntries) :
                        relatedEntries[i].status \in {"pending", "sending"}
        status == IF failed = Len(relatedEntries) /\ delivered = 0 THEN "failed"
                  ELSE IF inFlight THEN "in_progress"
                  ELSE IF delivered + failed >= Len(relatedEntries) THEN "completed"
                  ELSE IF broadcast.scheduledFor # Null THEN "scheduled"
                  ELSE broadcast.status
    IN  IF Len(relatedEntries) = 0 THEN broadcast
        ELSE IF status = broadcast.status /\ delivered = broadcast.delivered
                /\ failed = broadcast.failed
             THEN broadcast
             ELSE [broadcast EXCEPT !.delivered = delivered, !.failed = failed,
                                    !.status = status,
                                    !.totalRecipients = delivered + failed]

\* Variant of Aggregate: the failed count is the stored one.
AggregateKeepingFailed(broadcast, entries) ==
    LET related(entry) == entry.broadcastId = broadcast.id
        relatedEntries == SelectSeq(entries, related)
        delivered == CountStatus(relatedEntries, "delivered")
        failed == broadcast.failed
        inFlight == \E i \in 1..Len(relatedEntries) :
                        relatedEntries[i].status \in {"pending", "sending"}
        status == IF failed = Len(relatedEntries) /\ delivered = 0 THEN "failed"
                  ELSE IF inFlight THEN "in_progress"
                  ELSE IF delivered + failed >= Len(relatedEntries) THEN "completed"
                  ELSE IF broadcast.scheduledFor # Null THEN "scheduled"
                  ELSE broadcast.status
    IN  IF Len(relatedEntries) = 0 THEN broadcast
        ELSE IF status = broadcast.status /\ delivered = broadcast.delivered
                /\ failed = broadcast.failed
             THEN broadcast
             ELSE [broadcast EXCEPT !.delivered = delivered, !.failed = failed,
                                    !.status = status]

\* Variant of Aggregate: a broadcast with a schedule and no
\* finished task is written as `scheduled`.
AggregateScheduledWhileWaiting(broadcast, entries) ==
    LET related(entry) == entry.broadcastId = broadcast.id
        relatedEntries == SelectSeq(entries, related)
        delivered == CountStatus(relatedEntries, "delivered")
        failed == CountStatus(relatedEntries, "failed")
        inFlight == \E i \in 1..Len(relatedEntries) :
                        relatedEntries[i].status \in {"pending", "sending"}
        status == IF failed = Len(relatedEntries) /\ delivered = 0 THEN "failed"
                  ELSE IF broadcast.scheduledFor # Null /\ delivered + failed = 0
                       THEN "scheduled"
                  ELSE IF inFlight THEN "in_progress"
                  ELSE IF delivered + failed >= Len(relatedEntries) THEN "completed"
                  ELSE IF broadcast.scheduledFor # Null THEN "scheduled"
                  ELSE broadcast.status
    IN  IF Len(relatedEntries) = 0 THEN broadcast
        ELSE IF status = broadcast.status /\ delivered = broadcast.delivered
                /\ failed = broadcast.failed
             THEN broadcast
             ELSE [broadcast EXCEPT !.delivered = delivered, !.failed = failed,
                                    !.status = status]

Aggregate(broadcast, entries) ==
    LET related(entry) == entry.broadcastId = broadcast.id
        relatedEntries == SelectSeq(entries, related)
        delivered == CountStatus(relatedEntries, "delivered")
        failed == CountStatus(relatedEntries, "failed")
        inFlight == \E i \in 1..Len(relatedEntries) :
                        relatedEntries[i].status \in {"pending", "sending"}
        status == IF failed = Len(relatedEntries) /\ delivered = 0 THEN "failed"
                  ELSE IF inFlight THEN "in_progress"
                  ELSE IF delivered + failed >= Len(relatedEntries) THEN "completed"
                  ELSE IF broadcast.scheduledFor # Null THEN "scheduled"
                  ELSE broadcast.status
    IN  IF Len(relatedEntries) = 0 THEN broadcast
        ELSE IF status = broadcast.status /\ delivered = broadcast.delivered
                /\ failed = broadcast.failed
             THEN broadcast
             ELSE [broadcast EXCEPT !.delivered = delivered, !.failed = failed,
                                    !.status = status]

AggregateAll(prev, entries) == [i \in 1..Len(prev) |-> Aggregate(prev[i], entries)]

\* -------------------------------------------------------- dispatch effect
\* Variant of Eligible: the status of the entry is not looked at.
EligibleAnyStatus(entry, t) ==
    entry.scheduledFor = Null \/ entry.scheduledFor <= t + Lookahead

\* Variant of Eligible: the schedule of the entry is not looked at.
EligibleIgnoringSchedule(entry, t) == entry.status = "pending"

Eligible(entry, t) ==
    /\ entry.status = "pending"
    /\ (entry.scheduledFor = Null \/ entry.scheduledFor <= t + Lookahead)

\* Variant of FindNext: the last eligible entry is taken.
FindLast(entries, t) ==
    IF \E i \in 1..Len(entries) : Eligible(entries[i], t)
    THEN CHOOSE i \in 1..Len(entries) :
            /\ Eligible(entries[i], t)
            /\ \A j \in (i + 1)..Len(entries) : ~Eligible(entries[j], t)
    ELSE 0

\* deliveries.find: index of the first eligible entry, 0 when there is none
FindNext(entries, t) ==
    IF \E i \in 1..Len(entries) : Eligible(entries[i], t)
    THEN CHOOSE i \in 1..Len(entries) :
            /\ Eligible(entries[i], t)
            /\ \A j \in 1..(i - 1) : ~Eligible(entries[j], t)
    ELSE 0

\* Variant of MarkSending: the entry is moved to `sending` without a start stamp.
MarkSendingWithoutStamp(entries, id) ==
    [i \in 1..Len(entries) |->
        IF entries[i].id = id
        THEN [entries[i] EXCEPT !.status = "sending"]
        ELSE entries[i]]

\* Variant of MarkSending: every pending entry of the broadcast of the entry
\* is marked, not the entry alone.
MarkSendingWholeBroadcast(entries, id) ==
    LET target == CHOOSE j \in 1..Len(entries) : entries[j].id = id IN
    [i \in 1..Len(entries) |->
        IF entries[i].broadcastId = entries[target].broadcastId
           /\ entries[i].status = "pending"
        THEN [entries[i] EXCEPT !.status = "sending", !.startedAt = IsoStamp]
        ELSE entries[i]]

MarkSending(entries, id) ==
    [i \in 1..Len(entries) |->
        IF entries[i].id = id
        THEN [entries[i] EXCEPT !.status = "sending", !.startedAt = IsoStamp]
        ELSE entries[i]]

\* Variant of MarkCompleted: the outcome is recorded without the preview.
MarkCompletedClearingPreview(entries, id, shouldFail) ==
    [i \in 1..Len(entries) |->
        IF entries[i].id = id
        THEN [entries[i] EXCEPT !.status = IF shouldFail THEN "failed" ELSE "delivered",
                                !.preview = << >>,
                                !.completedAt = IsoStamp,
                                !.error = IF shouldFail THEN SendErrorMessage ELSE Undefined]
        ELSE entries[i]]

MarkCompleted(entries, id, shouldFail) ==
    [i \in 1..Len(entries) |->
        IF entries[i].id = id
        THEN [entries[i] EXCEPT !.status = IF shouldFail THEN "failed" ELSE "delivered",
                                !.completedAt = IsoStamp,
                                !.error = IF shouldFail THEN SendErrorMessage ELSE Undefined]
        ELSE entries[i]]

\* One commit after deliveries changed: cleanup of the previous dispatch
\* effect run, the aggregator effect, the dispatch effect.
Commit ==
    /\ effectsPending
    /\ LET refAfterCleanup == IF cleanup # {} THEN FALSE ELSE processingRef
           timersAfterCleanup == timers \ cleanup
           next == FindNext(deliveries, clock)
       IN  /\ broadcasts' = AggregateAll(broadcasts, deliveries)
           /\ IF refAfterCleanup \/ next = 0
              THEN /\ processingRef' = refAfterCleanup
                   /\ timers' = timersAfterCleanup
                   /\ cleanup' = {}
                   /\ effectsPending' = FALSE
                   /\ UNCHANGED deliveries
              ELSE \E shouldFail \in BOOLEAN :
                       LET handle == [id |-> deliveries[next].id, shouldFail |-> shouldFail]
                       IN  /\ processingRef' = TRUE
                           /\ deliveries' = MarkSending(deliveries, deliveries[next].id)
                           /\ timers' = timersAfterCleanup \cup {handle}
                           /\ cleanup' = {handle}
                           /\ effectsPending' = TRUE
    /\ lastSubmit' = "none"
    /\ UNCHANGED <<contacts, broadcastLabel, message, scheduledFor, audienceTag,
                   audienceMode, acknowledgedCompliance, clock, now, nextId, templates,
                   selectedTemplateId>>

\* The completion timer armed by the dispatch effect fires.
TimerFire ==
    /\ \E handle \in timers :
          /\ deliveries' = MarkCompleted(deliveries, handle.id, handle.shouldFail)
          /\ timers' = timers \ {handle}
    /\ processingRef' = FALSE
    /\ effectsPending' = TRUE
    /\ lastSubmit' = "none"
    /\ UNCHANGED <<contacts, broadcasts, broadcastLabel, message, scheduledFor,
                   audienceTag, audienceMode, acknowledgedCompliance, cleanup, clock, now,
                   nextId, templates, selectedTemplateId>>

\* ------------------------------------------------------------------ clock
\* Time passes, in steps of the lookahead tolerance.
AdvanceTime ==
    /\ clock + Lookahead <= MaxSteps * Lookahead
    /\ clock' = clock + Lookahead
    /\ lastSubmit' = "none"
    /\ UNCHANGED <<contacts, broadcasts, deliveries, broadcastLabel, message, scheduledFor,
                   audienceTag, audienceMode, acknowledgedCompliance, processingRef,
                   timers, cleanup, effectsPending, now, nextId, templates,
                   selectedTemplateId>>

\* The 15 s interval fires: setNow(Date.now()).  `now` is in no dependency
\* list of an effect, so the re-render runs no effect.
Tick ==
    /\ now' = clock
    /\ lastSubmit' = "none"
    /\ UNCHANGED <<contacts, broadcasts, deliveries, broadcastLabel, message, scheduledFor,
                   audienceTag, audienceMode, acknowledgedCompliance, processingRef,
                   timers, cleanup, effectsPending, clock, nextId, templates,
                   selectedTemplateId>>

\* ---------------------------------------------------------- specification
Init ==
    /\ contacts = SeedContacts
    /\ templates = << >>
    /\ selectedTemplateId = Null
    /\ broadcasts = << >>
    /\ deliveries = << >>
    /\ broadcastLabel = DefaultLabel
    /\ message = << >>
    /\ scheduledFor = Null
    /\ audienceTag = NullTag
    /\ audienceMode = "all"
    /\ acknowledgedCompliance = FALSE
    /\ processingRef = FALSE
    /\ timers = {}
    /\ cleanup = {}
    /\ effectsPending = FALSE
    /\ clock = 0
    /\ now = 0
    /\ nextId = 1
    /\ lastSubmit = "none"

\* The submit event of the form, for at most MaxBroadcasts launches.
Submit == Len(broadcasts) < MaxBroadcasts /\ handleSubmit

\* The submit event of the form, for at most MaxFormBroadcasts launches.
SubmitForm == Len(broadcasts) < MaxFormBroadcasts /\ handleSubmit

\* The dispatch engine: launches of immediate and scheduled broadcasts to
\* the two seed contacts, the effects, the timers and the clock.
Next ==
    \/ \E v \in EngineMessageInputs : SetMessage(v)
    \/ \E v \in ScheduleInputs : handleScheduleChange(v)
    \/ \E b \in BOOLEAN : SetAcknowledgedCompliance(b)
    \/ Submit
    \/ Commit
    \/ TimerFire
    \/ AdvanceTime
    \/ Tick

Spec == Init /\ [][Next]_vars

\* The engine with the scheduling the runtime guarantees: a pending commit
\* runs, an armed timer that is not cleared fires, the interval keeps firing.
FairSpec ==
    /\ Init /\ [][Next]_vars
    /\ WF_vars(Commit) /\ WF_vars(TimerFire) /\ WF_vars(Tick)

\* The launch form: every field of the form, the audience filter and the
\* opt-in switch of the contacts, with immediate broadcasts.
NextForm ==
    \/ \E v \in LabelInputs : SetBroadcastLabel(v)
    \/ \E v \in MessageInputs : SetMessage(v)
    \/ \E v \in TagInputs : SetAudienceTag(v)
    \/ \E m \in {"all", "tag"} : SetAudienceMode(m)
    \/ \E b \in BOOLEAN : SetAcknowledgedCompliance(b)
    \/ \E i \in 1..Len(contacts), b \in BOOLEAN : handleToggleOptIn(contacts[i].id, b)
    \/ SubmitForm
    \/ Commit
    \/ TimerFire

SpecForm == Init /\ [][NextForm]_vars

\* ------------------------------------------------- audience over any list
\* Contact lists for audience resolution: the tags of a contact follow from
\* its id: an upper-case tag, a tag that is a prefix of the target, or the
\* target as second tag.
TagsOf(id) ==
    CASE id % 3 = 1 -> << <<"V","I","P">> >>
      [] id % 3 = 2 -> << <<"v","i">> >>
      [] OTHER -> << <<"p","r","o">>, <<"v","i","p">> >>

PoolContact(id, optIn) ==
    [id |-> id, name |-> <<"N">>, phone |-> <<"5","5","5">>, tags |-> TagsOf(id),
     optIn |-> optIn]

ContactLists ==
    UNION { { [i \in 1..n |-> PoolContact(ids[i], opts[i])] :
                ids \in {f \in [1..n -> 1..MaxContacts] :
                            \A i, j \in 1..n : i # j => f[i] # f[j]},
                opts \in [1..n -> BOOLEAN] } : n \in 0..MaxContacts }

AudienceTagInputs == { NullTag, TagVip, <<"V","i","p">>, <<"p","r","o">> }

InitAudience ==
    /\ contacts \in ContactLists
    /\ templates = << >>
    /\ selectedTemplateId = Null
    /\ audienceMode \in {"all", "tag"}
    /\ audienceTag \in AudienceTagInputs
    /\ broadcasts = << >>
    /\ deliveries = << >>
    /\ broadcastLabel = DefaultLabel
    /\ message = << >>
    /\ scheduledFor = Null
    /\ acknowledgedCompliance = FALSE
    /\ processingRef = FALSE
    /\ timers = {}
    /\ cleanup = {}
    /\ effectsPending = FALSE
    /\ clock = 0
    /\ now = 0
    /\ nextId = 1
    /\ lastSubmit = "none"

NextAudience ==
    \/ \E v \in AudienceTagInputs : SetAudienceTag(v)
    \/ \E m \in {"all", "tag"} : SetAudienceMode(m)
    \/ \E i \in 1..Len(contacts), b \in BOOLEAN : handleToggleOptIn(contacts[i].id, b)

\* Audience resolution (optedInContacts, filteredContacts) over every
\* contact list of up to MaxContacts contacts.
SpecAudience == InitAudience /\ [][NextAudience]_vars

\* --------------------------------------------- aggregator over any storage
\* The page mounted on stored broadcasts and deliveries: one stored
\* broadcast in any status with any counts, and up to MaxAggTasks stored
\* entries in any status, each of that broadcast or of another one.
StoredBroadcastId == 1
OtherBroadcastId == 0

StoredEntry(id, broadcastId, status, schedule) ==
    [id |-> id,
     broadcastId |-> broadcastId,
     contactId |-> id,
     contactName |-> <<"N">>,
     phone |-> <<"5","5","5">>,
     scheduledFor |-> schedule,
     status |-> status,
     preview |-> <<"H","i">>,
     startedAt |-> IF status = "pending" THEN Undefined ELSE IsoStamp,
     completedAt |-> IF status \in {"delivered", "failed"} THEN IsoStamp ELSE Undefined,
     error |-> IF status = "failed" THEN SendErrorMessage ELSE Undefined]

StoredBroadcast(status, schedule, total, delivered, failed) ==
    [id |-> StoredBroadcastId,
     label |-> FollowUpLabel,
     templateId |-> Custom,
     target |-> [tag |-> TagVip],
     scheduledFor |-> schedule,
     createdAt |-> IsoStamp,
     status |-> status,
     totalRecipients |-> total,
     delivered |-> delivered,
     failed |-> failed]

InitAggregate ==
    /\ \E n \in 0..MaxAggTasks, schedule \in ScheduleInputs :
          \E statuses \in [1..n -> {"pending", "sending", "delivered", "failed"}],
             owners \in [1..n -> {StoredBroadcastId, OtherBroadcastId}],
             status \in {"scheduled", "in_progress", "completed", "failed"},
             delivered \in 0..MaxAggTasks, failed \in 0..MaxAggTasks,
             lost \in 1..MaxAggTasks :
                LET own == Cardinality({i \in 1..n : owners[i] = StoredBroadcastId})
                IN  /\ deliveries =
                          [i \in 1..n |-> StoredEntry(i + 1, owners[i], statuses[i], schedule)]
                    /\ broadcasts =
                          << StoredBroadcast(status, schedule,
                                             IF own > 0 THEN own ELSE lost,
                                             delivered, failed) >>
                    /\ nextId = n + 2
    /\ contacts = SeedContacts
    /\ templates = << >>
    /\ selectedTemplateId = Null
    /\ broadcastLabel = DefaultLabel
    /\ message = << >>
    /\ scheduledFor = Null
    /\ audienceTag = NullTag
    /\ audienceMode = "all"
    /\ acknowledgedCompliance = FALSE
    /\ processingRef = FALSE
    /\ timers = {}
    /\ cleanup = {}
    /\ effectsPending = TRUE
    /\ clock = 0
    /\ now = 0
    /\ lastSubmit = "none"

NextAggregate ==
    \/ Commit
    \/ TimerFire

\* The effects run on every stored combination of a broadcast and entries.
SpecAggregate == InitAggregate /\ [][NextAggregate]_vars

\* --------------------------------------------------- contacts and templates
WithoutId(list, id) ==
    LET keep(item) == item.id # id IN SelectSeq(list, keep)

handleRemoveContact(id) ==
    /\ contacts' = WithoutId(contacts, id)
    /\ lastSubmit' = "none"
    /\ UNCHANGED <<templates, selectedTemplateId, broadcasts, deliveries, broadcastLabel,
                   message, scheduledFor, audienceTag, audienceMode,
                   acknowledgedCompliance, processingRef, timers, cleanup, effectsPending,
                   clock, now, nextId>>

handleDeleteTemplate(id) ==
    /\ templates' = WithoutId(templates, id)
    /\ IF selectedTemplateId = id
       THEN /\ selectedTemplateId' = Null
            /\ message' = MessageAfterEffect(<< >>, templates', Null)
       ELSE /\ selectedTemplateId' = selectedTemplateId
            /\ message' = MessageAfterEffect(message, templates', selectedTemplateId)
    /\ lastSubmit' = "none"
    /\ UNCHANGED <<contacts, broadcasts, deliveries, broadcastLabel, scheduledFor,
                   audienceTag, audienceMode, acknowledgedCompliance, processingRef,
                   timers, cleanup, effectsPending, clock, now, nextId>>

\* ------------------------------------------------------------ contact list
DigitChars == {"0","1","2","3","4","5","6","7","8","9"}

\* Variant of Normalized: the phone is compared as written.
NormalizedAsWritten(phone) == phone

\* phone.replace(/\D/g, "")
Normalized(phone) ==
    LET isDigit(c) == c \in DigitChars IN SelectSeq(phone, isDigit)

\* imported.filter with the growing set `seen`: the imported contacts whose
\* normalized phone is not in `seen` and not that of one kept before
RECURSIVE UniqueOf(_, _)
UniqueOf(imported, seen) ==
    IF imported = << >> THEN << >>
    ELSE IF Normalized(Head(imported).phone) \in seen
         THEN UniqueOf(Tail(imported), seen)
         ELSE <<Head(imported)>>
              \o UniqueOf(Tail(imported), seen \cup {Normalized(Head(imported).phone)})

\* A contact as ContactManager builds it from the form or from a CSV row.
NewContact(id, phone) ==
    [id |-> id, name |-> <<"N">>, phone |-> phone, tags |-> << >>, optIn |-> TRUE]

\* [0-9()[\]\s-]
PhoneChars == DigitChars \cup {"(", ")", "[", "]", "-"} \cup WhitespaceChars

\* phonePattern.test(phone.trim()): /^\+?[0-9()[\]\s-]{6,}$/
PhoneValid(phone) ==
    LET text == Trim(phone)
        rest == IF text # << >> /\ text[1] = "+" THEN Tail(text) ELSE text
    IN  /\ Len(rest) >= 6
        /\ \A i \in 1..Len(rest) : rest[i] \in PhoneChars

PhoneFormatted == <<"+","1"," ","(","4","1","5",")"," ","5","5","5","-","0","1","3","8">>
PhoneDigits == <<"1","4","1","5","5","5","5","0","1","3","8">>
PhoneOfSeedSpaced == <<"+","(","1",")"," ","4","1","5">>
PhoneTooShort == <<"1","2","3","4","5">>
PhoneInputs == { PhoneFormatted, PhoneDigits, PhoneOfSeedSpaced, PhoneTooShort }

\* The phone inputs the pattern accepts, and each input trimmed.
MatchingPhones == { phone \in PhoneInputs : PhoneValid(phone) }
TrimmedPhone == [phone \in PhoneInputs |-> Trim(phone)]

\* The contacts ContactManager builds from the rows of a CSV file: rows
\* whose phone does not match the pattern are left out.
ImportedOf(phones) ==
    LET matches(phone) == phone \in MatchingPhones
        rows == SelectSeq(phones, matches)
    IN  [k \in 1..Len(rows) |-> NewContact(nextId + k - 1, TrimmedPhone[rows[k]])]

handleAddContact(contact) ==
    /\ nextId < FirstNewId + MaxAdded
    /\ contacts' = <<contact>> \o contacts
    /\ nextId' = nextId + 1
    /\ lastSubmit' = "none"
    /\ UNCHANGED <<templates, selectedTemplateId, broadcasts, deliveries, broadcastLabel,
                   message, scheduledFor, audienceTag, audienceMode,
                   acknowledgedCompliance, processingRef, timers, cleanup, effectsPending,
                   clock, now>>

\* ContactManager.handleAddContact with the phone typed into its form.
handleContactSubmit(phone) ==
    IF phone \notin MatchingPhones
    THEN /\ lastSubmit' = "none"
         /\ UNCHANGED <<contacts, templates, selectedTemplateId, broadcasts, deliveries,
                        broadcastLabel, message, scheduledFor, audienceTag, audienceMode,
                        acknowledgedCompliance, processingRef, timers, cleanup,
                        effectsPending, clock, now, nextId>>
    ELSE handleAddContact(NewContact(nextId, TrimmedPhone[phone]))

handleBulkAdd(imported) ==
    /\ nextId + Len(imported) <= FirstNewId + MaxAdded
    /\ nextId' = nextId + Len(imported)
    /\ IF Len(imported) = 0
       THEN contacts' = contacts
       ELSE LET seen == {Normalized(contacts[i].phone) : i \in 1..Len(contacts)}
                unique == UniqueOf(imported, seen)
            IN  contacts' = IF Len(unique) = 0 THEN contacts ELSE unique \o contacts
    /\ lastSubmit' = "none"
    /\ UNCHANGED <<templates, selectedTemplateId, broadcasts, deliveries, broadcastLabel,
                   message, scheduledFor, audienceTag, audienceMode,
                   acknowledgedCompliance, processingRef, timers, cleanup, effectsPending,
                   clock, now>>

PhoneBatches == UNION { [1..n -> PhoneInputs] : n \in 0..MaxBatch }

\* The page mounted on the two stored contacts, whose ids are taken.
InitContacts ==
    /\ contacts = SeedContacts
    /\ nextId = FirstNewId
    /\ templates = << >>
    /\ selectedTemplateId = Null
    /\ broadcasts = << >>
    /\ deliveries = << >>
    /\ broadcastLabel = DefaultLabel
    /\ message = << >>
    /\ scheduledFor = Null
    /\ audienceTag = NullTag
    /\ audienceMode = "all"
    /\ acknowledgedCompliance = FALSE
    /\ processingRef = FALSE
    /\ timers = {}
    /\ cleanup = {}
    /\ effectsPending = FALSE
    /\ clock = 0
    /\ now = 0
    /\ lastSubmit = "none"

NextContacts ==
    \/ \E phone \in PhoneInputs : handleContactSubmit(phone)
    \/ \E phones \in PhoneBatches : handleBulkAdd(ImportedOf(phones))
    \/ \E i \in 1..Len(contacts), b \in BOOLEAN : handleToggleOptIn(contacts[i].id, b)
    \/ \E i \in 1..Len(contacts) : handleRemoveContact(contacts[i].id)

\* The contact list under single additions, bulk imports, opt-in toggles
\* and removals, for up to MaxAdded new contacts.
SpecContacts == InitContacts /\ [][NextContacts]_vars

\* ------------------------------------------------ launches from a template
BroadcastSuffix == <<" ","b","r","o","a","d","c","a","s","t">>

StoredTemplate ==
    [id |-> 1,
     name |-> <<"P","r","o","m","o">>,
     body |-> <<"H","i"," ","{","{","f","i","r","s","t","N","a","m","e","}","}">>,
     createdAt |-> IsoStamp]

\* The page mounted on storage that holds the two contacts and one template:
\* the template is selected and fills the message and the label.
InitSnapshot ==
    /\ contacts = SeedContacts
    /\ templates = <<StoredTemplate>>
    /\ selectedTemplateId = StoredTemplate.id
    /\ message = StoredTemplate.body
    /\ broadcastLabel = StoredTemplate.name \o BroadcastSuffix
    /\ broadcasts = << >>
    /\ deliveries = << >>
    /\ scheduledFor = Null
    /\ audienceTag = NullTag
    /\ audienceMode = "all"
    /\ acknowledgedCompliance = FALSE
    /\ processingRef = FALSE
    /\ timers = {}
    /\ cleanup = {}
    /\ effectsPending = FALSE
    /\ clock = 0
    /\ now = 0
    /\ nextId = 2
    /\ lastSubmit = "none"

NextSnapshot ==
    \/ \E v \in ScheduleInputs : handleScheduleChange(v)
    \/ \E b \in BOOLEAN : SetAcknowledgedCompliance(b)
    \/ \E i \in 1..Len(contacts), b \in BOOLEAN : handleToggleOptIn(contacts[i].id, b)
    \/ \E i \in 1..Len(contacts) : handleRemoveContact(contacts[i].id)
    \/ \E i \in 1..Len(templates) : handleDeleteTemplate(templates[i].id)
    \/ SubmitForm
    \/ Commit
    \/ TimerFire

\* Launches whose message comes from a template, followed by dispatch,
\* completion, opting out, and removal of the contacts and of the template.
SpecSnapshot == InitSnapshot /\ [][NextSnapshot]_vars

\* ------------------------------------------------------------ template set
BodyLimit == 1100

\* Variant of TemplateExists: a template is looked up by its id.
TemplateExistsById(list, template) ==
    \E i \in 1..Len(list) : list[i].id = template.id

\* prev.some: a template of the same name, letter case aside, and the same
\* trimmed body
TemplateExists(list, template) ==
    \E i \in 1..Len(list) :
        /\ ToLowerCase(list[i].name) = ToLowerCase(template.name)
        /\ Trim(list[i].body) = Trim(template.body)

handleAddTemplate(template) ==
    /\ templates' = IF TemplateExists(templates, template) THEN templates
                    ELSE <<template>> \o templates
    /\ selectedTemplateId' = template.id
    /\ message' = MessageAfterEffect(template.body, templates', template.id)
    /\ broadcastLabel' = template.name \o BroadcastSuffix
    /\ nextId' = nextId + 1
    /\ lastSubmit' = "none"
    /\ UNCHANGED <<contacts, broadcasts, deliveries, scheduledFor, audienceTag,
                   audienceMode, acknowledgedCompliance, processingRef, timers, cleanup,
                   effectsPending, clock, now>>

\* TemplateManager.handleSubmit with the name and body typed into its form.
handleTemplateSubmit(name, body) ==
    /\ nextId <= StoredTemplate.id + MaxTemplateAdds
    /\ IF Trim(name) = << >> \/ Trim(body) = << >> \/ Len(Trim(body)) > BodyLimit
       THEN /\ lastSubmit' = "none"
            /\ UNCHANGED <<contacts, templates, selectedTemplateId, broadcasts, deliveries,
                           broadcastLabel, message, scheduledFor, audienceTag,
                           audienceMode, acknowledgedCompliance, processingRef, timers,
                           cleanup, effectsPending, clock, now, nextId>>
       ELSE handleAddTemplate([id |-> nextId, name |-> Trim(name), body |-> Trim(body),
                               createdAt |-> IsoStamp])

handleSelectTemplate(id) ==
    /\ selectedTemplateId' = id
    /\ IF FindTemplate(templates, id) # 0
       THEN /\ message' = MessageAfterEffect(templates[FindTemplate(templates, id)].body,
                                             templates, id)
            /\ broadcastLabel' = templates[FindTemplate(templates, id)].name
                                    \o BroadcastSuffix
       ELSE /\ message' = MessageAfterEffect(message, templates, id)
            /\ broadcastLabel' = broadcastLabel
    /\ lastSubmit' = "none"
    /\ UNCHANGED <<contacts, templates, broadcasts, deliveries, scheduledFor, audienceTag,
                   audienceMode, acknowledgedCompliance, processingRef, timers, cleanup,
                   effectsPending, clock, now, nextId>>

TemplateNameInputs ==
    { StoredTemplate.name, <<"p","r","o","m","o">>, <<" ","S","a","l","e">>, <<" ">> }

TemplateBodyInputs == { StoredTemplate.body, <<"H","i"," ">>, <<" ">> }

NextTemplates ==
    \/ \E name \in TemplateNameInputs, body \in TemplateBodyInputs :
          handleTemplateSubmit(name, body)
    \/ \E i \in 1..Len(templates) : handleDeleteTemplate(templates[i].id)
    \/ \E i \in 1..Len(templates) : handleSelectTemplate(templates[i].id)

\* The template set under additions, deletions and selections, started
\* with one stored template, for up to MaxTemplateAdds submissions.
SpecTemplates == InitSnapshot /\ [][NextTemplates]_vars

\* ------------------------------------------------------- acknowledgement
NextAcknowledge ==
    \/ \E b \in BOOLEAN : SetAcknowledgedCompliance(b)
    \/ \E v \in ScheduleInputs : handleScheduleChange(v)
    \/ Submit
    \/ Commit
    \/ TimerFire

\* Immediate and scheduled launches from a selected template, which refills
\* the message after each launch, so that the acknowledgement alone stands
\* between two launches; the effects and the timers run, the clock stands
\* still, so that a scheduled task stays pending and not due.
SpecAcknowledge == InitSnapshot /\ [][NextAcknowledge]_vars

\* ------------------------------------------------ rendering over any input
\* Message bodies are built from pieces: the six placeholders as the
\* template form suggests them, a placeholder in other case with inner
\* whitespace, plain text, a placeholder the code does not know, and a
\* whole sentence.
TokenFirstName == <<"{","{","f","i","r","s","t","N","a","m","e","}","}">>
TokenFullName == <<"{","{","f","u","l","l","N","a","m","e","}","}">>
TokenCompany == <<"{","{","c","o","m","p","a","n","y","}","}">>
TokenNotes == <<"{","{","n","o","t","e","s","}","}">>
TokenTag == <<"{","{","t","a","g","}","}">>
TokenPhone == <<"{","{","p","h","o","n","e","}","}">>
TokenCompanySpaced == <<"{","{"," ","C","o","m","p","a","n","y","\t","}","}">>
TextHi == <<"H","i"," ">>
TokenMeetingTime == <<"{","{","m","e","e","t","i","n","g","T","i","m","e","}","}">>
ScenarioBody ==
    <<"H","i"," ","{","{","f","i","r","s","t","N","a","m","e","}","}"," ","f","r","o","m",
      " ","{","{","c","o","m","p","a","n","y","}","}">>

RenderPieces ==
    { TokenFirstName,
      TokenFullName,
      TokenCompany,
      TokenNotes,
      TokenTag,
      TokenPhone,
      TokenCompanySpaced,
      TextHi,
      TokenMeetingTime,
      ScenarioBody }

RECURSIVE Flatten(_)
Flatten(pieces) == IF pieces = << >> THEN << >> ELSE Head(pieces) \o Flatten(Tail(pieces))

RenderBodies ==
    UNION { { Flatten(pieces) : pieces \in [1..n -> RenderPieces] } : n \in 1..MaxPieces }

\* Contacts for rendering: a name of two words, a name with a tab and outer
\* spaces, a name that is placeholder text; no tag, a company tag first or
\* second and in upper case, tags that are replacement patterns or
\* placeholder text; notes absent, plain, or placeholder text.
NameDanaLee == <<"D","a","n","a"," ","L","e","e">>
NameTabbed == <<" ","B","o","\t","X"," ">>
RenderNames == { NameDanaLee, NameTabbed, TokenPhone }

TagAcmeCompany == <<"a","c","m","e","-","c","o","m","p","a","n","y">>
TagUpperCompany == <<"A","c","m","e","-","C","O","M","P","A","N","Y">>
TagMatchPattern == <<"$","&">>
RenderTagLists ==
    { << >>,
      <<TagAcmeCompany, TagVip>>,
      <<TagVip, TagUpperCompany>>,
      <<TagMatchPattern>>,
      <<TokenNotes>> }

RenderNotes == { <<"N">>, TokenFirstName }

RenderContacts ==
    { [id |-> 1, name |-> name, phone |-> SeedContacts[1].phone, tags |-> tags,
       optIn |-> TRUE] : name \in RenderNames, tags \in RenderTagLists }
    \cup
    { [id |-> 1, name |-> name, phone |-> SeedContacts[1].phone, tags |-> tags,
       notes |-> notes, optIn |-> TRUE] :
          name \in RenderNames, tags \in RenderTagLists, notes \in RenderNotes }

\* The form holds a body and an acknowledged compliance box, the contact
\* list holds one opted-in contact.
InitRender ==
    /\ \E contact \in RenderContacts : contacts = <<contact>>
    /\ message \in RenderBodies
    /\ acknowledgedCompliance = TRUE
    /\ templates = << >>
    /\ selectedTemplateId = Null
    /\ broadcasts = << >>
    /\ deliveries = << >>
    /\ broadcastLabel = DefaultLabel
    /\ scheduledFor = Null
    /\ audienceTag = NullTag
    /\ audienceMode = "all"
    /\ processingRef = FALSE
    /\ timers = {}
    /\ cleanup = {}
    /\ effectsPending = FALSE
    /\ clock = 0
    /\ now = 0
    /\ nextId = 1
    /\ lastSubmit = "none"

NextRender ==
    \/ SubmitForm
    \/ Commit
    \/ TimerFire

\* personaliseMessage applied by a launch to every body and every contact
\* of the input sets.
SpecRender == InitRender /\ [][NextRender]_vars

\* The effects on stored broadcasts and entries with the scheduling the
\* runtime guarantees: a pending commit runs, an armed timer that is not
\* cleared fires.
FairSpecAggregate ==
    /\ InitAggregate /\ [][NextAggregate]_vars
    /\ WF_vars(Commit) /\ WF_vars(TimerFire)

\* ================================================================ claims
TaskSlots == 1..(MaxBroadcasts * Len(SeedContacts))

TaskIds(entries) == {entries[i].id : i \in 1..Len(entries)}

TaskById(entries, id) == entries[CHOOSE i \in 1..Len(entries) : entries[i].id = id]

Sending(entries) == {i \in 1..Len(entries) : entries[i].status = "sending"}

\* The tasks that are in `sending` after the step and were not before it.
EnteredSending ==
    {id \in TaskIds(deliveries) \cap TaskIds(deliveries') :
        /\ TaskById(deliveries', id).status = "sending"
        /\ TaskById(deliveries, id).status # "sending"}

IsTerminal(st) == st \in {"delivered", "failed"}

IsBlank(text) == \A i \in 1..Len(text) : text[i] \in WhitespaceChars

\* C1: at most one delivery task in the whole delivery collection has
\* status `sending`, in every reachable state.
C1_AtMostOneSending == Cardinality(Sending(deliveries)) <= 1

\* C2: every task that enters `sending` eventually reaches `delivered` or
\* `failed`; no task remains in `sending` forever.
C2_SendingEventuallyCompletes ==
    \A i \in TaskSlots :
        (i <= Len(deliveries) /\ deliveries[i].status = "sending")
            ~> (i <= Len(deliveries) /\ IsTerminal(deliveries[i].status))

\* C3: every status change of a task is pending->sending, sending->delivered
\* or sending->failed, so a delivered or failed task never changes status
\* again and is never dispatched a second time.
C3_StatusTransitions ==
    [][\A id \in TaskIds(deliveries) \cap TaskIds(deliveries') :
         LET before == TaskById(deliveries, id).status
             after == TaskById(deliveries', id).status
         IN  before # after =>
                \/ before = "pending" /\ after = "sending"
                \/ before = "sending" /\ after = "delivered"
                \/ before = "sending" /\ after = "failed"]_vars

\* A state where one task has been delivered and another has failed.
C3_Witness ==
    /\ \E i \in 1..Len(deliveries) : deliveries[i].status = "delivered"
    /\ \E i \in 1..Len(deliveries) : deliveries[i].status = "failed"

\* C4: while every task is unscheduled, the dispatcher goes on through the
\* queue: eventually every task is delivered or failed.
C4_QueueDrains ==
    (Len(deliveries) > 0 /\ \A i \in 1..Len(deliveries) : deliveries[i].scheduledFor = Null)
        ~> \/ \A i \in 1..Len(deliveries) : IsTerminal(deliveries[i].status)
           \/ \E i \in 1..Len(deliveries) : deliveries[i].scheduledFor # Null

\* C5: a task enters `sending` only from `pending` and only when its
\* scheduledFor is unset or at most 500 ms after the current time.
C5_DispatchOnlyWhenDue ==
    [][\A id \in EnteredSending :
         LET entry == TaskById(deliveries, id)
         IN  /\ entry.status = "pending"
             /\ (entry.scheduledFor = Null \/ entry.scheduledFor <= clock + 500)]_vars

\* A scheduled task has been dispatched while an equally scheduled task of
\* the same broadcast still waits.
C5_Witness ==
    \E i, j \in 1..Len(deliveries) :
        /\ deliveries[i].scheduledFor # Null /\ deliveries[i].status = "sending"
        /\ deliveries[j].scheduledFor # Null /\ deliveries[j].status = "pending"

\* C6: a pending task whose scheduled time has arrived is eventually
\* dispatched, the periodic tick alone being enough to trigger it.
C6_DueTaskEventuallyDispatched ==
    \A i \in TaskSlots :
        (/\ i <= Len(deliveries)
         /\ deliveries[i].status = "pending"
         /\ deliveries[i].scheduledFor # Null
         /\ deliveries[i].scheduledFor <= clock)
            ~> (i <= Len(deliveries) /\ deliveries[i].status # "pending")

\* C7 as stated: no task of a later-launched broadcast enters `sending`
\* while a task of an earlier-launched broadcast is still pending, whatever
\* the scheduledFor values.
C7_GlobalFifoAnySchedule ==
    [][\A id \in EnteredSending :
         \A i \in 1..Len(deliveries) :
            deliveries[i].broadcastId < TaskById(deliveries, id).broadcastId
                => deliveries[i].status # "pending"]_vars

\* C7 as amended: no task of a later-launched broadcast enters `sending`
\* while a task of an earlier-launched broadcast is pending and due
\* (scheduledFor unset or at most 500 ms after the current time).
C7_GlobalFifoAmongDue ==
    [][\A id \in EnteredSending :
         \A i \in 1..Len(deliveries) :
            deliveries[i].broadcastId < TaskById(deliveries, id).broadcastId
                => ~(/\ deliveries[i].status = "pending"
                     /\ (\/ deliveries[i].scheduledFor = Null
                         \/ deliveries[i].scheduledFor <= clock + 500))]_vars

\* A task of the second broadcast is being sent while the first broadcast
\* has a pending task that is not due yet.
C7_Witness ==
    \E i, j \in 1..Len(deliveries) :
        /\ deliveries[i].broadcastId < deliveries[j].broadcastId
        /\ deliveries[i].status = "pending"
        /\ deliveries[i].scheduledFor # Null
        /\ deliveries[i].scheduledFor > clock + 500
        /\ deliveries[j].status = "sending"

\* C8: within one broadcast a task never enters `sending` while a task that
\* precedes it in the same broadcast is still pending.
C8_OrderWithinBroadcast ==
    [][\A id \in EnteredSending :
         \A i \in 1..Len(deliveries) :
            (/\ deliveries[i].broadcastId = TaskById(deliveries, id).broadcastId
             /\ deliveries[i].id < id)
                => deliveries[i].status # "pending"]_vars

\* The second task of a broadcast is being sent, its first task having been
\* dispatched before it.
C8_Witness ==
    \E i, j \in 1..Len(deliveries) :
        /\ deliveries[i].broadcastId = deliveries[j].broadcastId
        /\ deliveries[i].id < deliveries[j].id
        /\ deliveries[i].status # "pending"
        /\ deliveries[j].status = "sending"

\* C9: a successful launch over a resolved audience of size K creates
\* exactly one broadcast and exactly K tasks, one per resolved recipient in
\* resolved order, each pending and carrying the new broadcast's id, and
\* sets totalRecipients = K, delivered = 0, failed = 0.
C9_LaunchCreatesOneTaskPerRecipient ==
    [][(Len(broadcasts') # Len(broadcasts) \/ Len(deliveries') # Len(deliveries)) =>
         LET K == Len(filteredContacts)
             created == broadcasts'[1]
         IN  /\ Len(broadcasts') = Len(broadcasts) + 1
             /\ SubSeq(broadcasts', 2, Len(broadcasts')) = broadcasts
             /\ \A i \in 1..Len(broadcasts) : broadcasts[i].id # created.id
             /\ Len(deliveries') = Len(deliveries) + K
             /\ SubSeq(deliveries', 1, Len(deliveries)) = deliveries
             /\ \A i \in 1..K :
                   LET entry == deliveries'[Len(deliveries) + i]
                   IN  /\ entry.status = "pending"
                       /\ entry.broadcastId = created.id
                       /\ entry.contactId = filteredContacts[i].id
             /\ created.totalRecipients = K
             /\ created.delivered = 0
             /\ created.failed = 0]_vars

\* A launch in tag mode has just reached one of the two opted-in contacts.
C9_Witness ==
    /\ lastSubmit = "launched"
    /\ Len(optedInContacts) = 2
    /\ Len(broadcasts) = 1 /\ broadcasts[1].totalRecipients = 1
    /\ Len(deliveries) = 1 /\ deliveries[1].status = "pending"

\* C10: a submission with a label or a body that is empty after trimming,
\* or with an empty resolved audience, launches nothing: the broadcast
\* collection and the delivery collection are unchanged.
C10_InvalidLaunchRejected ==
    [][(/\ lastSubmit' # "none"
        /\ (IsBlank(broadcastLabel) \/ IsBlank(message) \/ Len(filteredContacts) = 0))
          => /\ lastSubmit' = "rejected"
             /\ broadcasts' = broadcasts
             /\ deliveries' = deliveries]_vars

\* A submission has just been rejected for its blank label alone.
C10_Witness ==
    /\ lastSubmit = "rejected"
    /\ Len(broadcastLabel) > 0 /\ IsBlank(broadcastLabel)
    /\ ~IsBlank(message)
    /\ acknowledgedCompliance
    /\ Len(filteredContacts) > 0
    /\ ~isProcessing

\* C11: in tag mode with no target tag set the audience is not resolved to
\* all opted-in contacts, and a submission is rejected and creates no
\* broadcast or task.
C11_TagModeWithoutTagRejected ==
    [][(audienceMode = "tag" /\ audienceTag = NullTag) =>
         /\ (Len(optedInContacts) > 0 => filteredContacts # optedInContacts)
         /\ (lastSubmit' # "none" =>
                /\ lastSubmit' = "rejected"
                /\ broadcasts' = broadcasts
                /\ deliveries' = deliveries)]_vars

\* C12 as stated: no task enters `sending` for a contact whose optIn is
\* false at the moment of dispatch.
C12_NoDispatchToOptedOut ==
    [][\A id \in EnteredSending :
         \E i \in 1..Len(contacts) :
            /\ contacts[i].id = TaskById(deliveries, id).contactId
            /\ contacts[i].optIn]_vars

\* C12 as amended: every task a launch creates is for a contact whose optIn
\* is true at the moment of the launch.
C12_NoTaskForOptedOutAtLaunch ==
    [][\A id \in TaskIds(deliveries') \ TaskIds(deliveries) :
         \E i \in 1..Len(contacts) :
            /\ contacts[i].id = TaskById(deliveries', id).contactId
            /\ contacts[i].optIn]_vars

\* A launch to all opted-in contacts has just left out the opted-out one.
C12_Witness ==
    /\ lastSubmit = "launched"
    /\ audienceMode = "all"
    /\ \E i \in 1..Len(contacts) : ~contacts[i].optIn
    /\ Len(deliveries) = 1
    /\ \E i \in 1..Len(contacts) :
          contacts[i].id = deliveries[1].contactId /\ contacts[i].optIn

\* The elements of source at the indices in kept, in the order of source.
OrderedSelection(source, kept) ==
    [k \in 1..Cardinality(kept) |->
        source[CHOOSE i \in kept : Cardinality({j \in kept : j <= i}) = k]]

CasePairs == { <<"V","v">>, <<"I","i">>, <<"P","p">> }

EqualIgnoringCase(a, b) ==
    /\ Len(a) = Len(b)
    /\ \A i \in 1..Len(a) :
          a[i] = b[i] \/ <<a[i], b[i]>> \in CasePairs \/ <<b[i], a[i]>> \in CasePairs

\* C13: in mode "all" the resolved audience is exactly the contacts with
\* optIn = true, in the order of the contact list.
C13_AllModeIsOptedInInOrder ==
    audienceMode = "all" =>
        filteredContacts =
            OrderedSelection(contacts, {i \in 1..Len(contacts) : contacts[i].optIn})

\* Mode "all" over three contacts of which the middle one is opted out.
C13_Witness ==
    /\ audienceMode = "all"
    /\ Len(contacts) = 3
    /\ contacts[1].optIn /\ ~contacts[2].optIn /\ contacts[3].optIn
    /\ Len(filteredContacts) = 2

\* C14: in tag mode with a target tag set the resolved audience is exactly
\* the contacts with optIn = true and at least one tag equal to the target
\* ignoring case, in the order of the contact list.
C14_TagModeIsOptedInWithTagInOrder ==
    (audienceMode = "tag" /\ audienceTag # NullTag) =>
        filteredContacts =
            OrderedSelection(contacts,
                {i \in 1..Len(contacts) :
                    /\ contacts[i].optIn
                    /\ \E t \in 1..Len(contacts[i].tags) :
                          EqualIgnoringCase(contacts[i].tags[t], audienceTag)})

\* Tag mode keeps a contact whose tag differs in case and one whose second
\* tag matches, and leaves out an opted-in contact without the tag.
C14_Witness ==
    /\ audienceMode = "tag" /\ audienceTag = TagVip
    /\ Len(contacts) = 3 /\ \A i \in 1..3 : contacts[i].optIn
    /\ Len(filteredContacts) = 2
    /\ \E i \in 1..2 : filteredContacts[i].tags = << <<"V","I","P">> >>
    /\ \E i \in 1..2 : Len(filteredContacts[i].tags) = 2

TasksOf(broadcast) ==
    {i \in 1..Len(deliveries) : deliveries[i].broadcastId = broadcast.id}

\* C15: every broadcast satisfies delivered + failed <= totalRecipients, in
\* every reachable state.
C15_CountsWithinTotal ==
    \A i \in 1..Len(broadcasts) :
        broadcasts[i].delivered + broadcasts[i].failed <= broadcasts[i].totalRecipients

\* A broadcast whose counts, one delivered and one failed, reach its total.
C15_Witness ==
    \E i \in 1..Len(broadcasts) :
        /\ broadcasts[i].delivered = 1 /\ broadcasts[i].failed = 1
        /\ broadcasts[i].totalRecipients = 2

\* C16: a broadcast with status `completed` has every one of its tasks in
\* `delivered` or `failed`, in every reachable state.
C16_CompletedMeansAllTerminal ==
    \A i \in 1..Len(broadcasts) :
        broadcasts[i].status = "completed" =>
            \A j \in TasksOf(broadcasts[i]) : IsTerminal(deliveries[j].status)

\* A completed broadcast next to a broadcast that still has a pending task.
C16_Witness ==
    \E i, k \in 1..Len(broadcasts) :
        /\ broadcasts[i].status = "completed"
        /\ TasksOf(broadcasts[i]) # {}
        /\ \E j \in TasksOf(broadcasts[k]) : deliveries[j].status = "pending"

\* C17: a broadcast with status `failed` has delivered = 0 and
\* failed = totalRecipients, in every reachable state.
C17_FailedMeansAllFailed ==
    \A i \in 1..Len(broadcasts) :
        broadcasts[i].status = "failed" =>
            /\ broadcasts[i].delivered = 0
            /\ broadcasts[i].failed = broadcasts[i].totalRecipients

\* A failed broadcast of two recipients next to one with a delivered task.
C17_Witness ==
    \E i, k \in 1..Len(broadcasts) :
        /\ broadcasts[i].status = "failed" /\ broadcasts[i].totalRecipients = 2
        /\ broadcasts[k].delivered > 0

\* The five-rule precedence of the status aggregator.
FiveRuleStatus(broadcast, entries) ==
    LET mine == {i \in 1..Len(entries) : entries[i].broadcastId = broadcast.id}
        nDelivered == Cardinality({i \in mine : entries[i].status = "delivered"})
        nFailed == Cardinality({i \in mine : entries[i].status = "failed"})
    IN  IF mine # {} /\ nDelivered = 0 /\ \A i \in mine : entries[i].status = "failed"
        THEN "failed"
        ELSE IF \E i \in mine : entries[i].status \in {"pending", "sending"}
        THEN "in_progress"
        ELSE IF nDelivered + nFailed >= broadcast.totalRecipients
        THEN "completed"
        ELSE IF broadcast.scheduledFor # Null
        THEN "scheduled"
        ELSE broadcast.status

\* C18 as stated: for every broadcast and every combination of its task
\* statuses, a broadcast with no tasks included, the status the aggregator
\* writes is the result of the five-rule precedence.
C18_StatusIsFiveRule ==
    [][Commit =>
         /\ Len(broadcasts') = Len(broadcasts)
         /\ \A i \in 1..Len(broadcasts) :
               broadcasts'[i].status = FiveRuleStatus(broadcasts[i], deliveries)]_vars

\* C18 as amended: for every broadcast that has at least one task the
\* status the aggregator writes is the result of the five-rule precedence;
\* a broadcast with no tasks is left as it was.
C18_StatusIsFiveRuleWithTasks ==
    [][Commit =>
         /\ Len(broadcasts') = Len(broadcasts)
         /\ \A i \in 1..Len(broadcasts) :
               IF TasksOf(broadcasts[i]) # {}
               THEN broadcasts'[i].status = FiveRuleStatus(broadcasts[i], deliveries)
               ELSE broadcasts'[i] = broadcasts[i]]_vars

\* The aggregator has run on a broadcast with one delivered and one failed
\* task and has written `completed`.
C18_Witness ==
    /\ ~effectsPending
    /\ \E i \in 1..Len(broadcasts) :
          /\ broadcasts[i].status = "completed"
          /\ broadcasts[i].delivered = 1 /\ broadcasts[i].failed = 1
          /\ \E j \in TasksOf(broadcasts[i]) : deliveries[j].status = "delivered"
          /\ \E j \in TasksOf(broadcasts[i]) : deliveries[j].status = "failed"

\* C19: once the effects have run, a broadcast all of whose tasks have
\* failed has status `failed`, failed equal to its task count and
\* delivered = 0; so has a broadcast whose single task failed.
C19_AllFailedGivesFailed ==
    \A i \in 1..Len(broadcasts) :
        (/\ ~effectsPending
         /\ TasksOf(broadcasts[i]) # {}
         /\ \A j \in TasksOf(broadcasts[i]) : deliveries[j].status = "failed")
            => /\ broadcasts[i].status = "failed"
               /\ broadcasts[i].failed = Cardinality(TasksOf(broadcasts[i]))
               /\ broadcasts[i].delivered = 0

\* The single task of a broadcast has failed and the effects have run.
C19_Witness ==
    /\ ~effectsPending
    /\ \E i \in 1..Len(broadcasts) :
          /\ Cardinality(TasksOf(broadcasts[i])) = 1
          /\ \A j \in TasksOf(broadcasts[i]) : deliveries[j].status = "failed"
          /\ broadcasts[i].status = "failed"
          /\ broadcasts[i].failed = 1 /\ broadcasts[i].delivered = 0

\* C20: running the aggregator twice on the same deliveries gives the same
\* broadcasts as running it once, and a broadcast whose status, delivered
\* and failed would not change is left exactly as it was.
C20_AggregatorIdempotent ==
    LET once == AggregateAll(broadcasts, deliveries)
        twice == AggregateAll(once, deliveries)
    IN  /\ twice = once
        /\ \A i \in 1..Len(broadcasts) :
              (/\ once[i].status = broadcasts[i].status
               /\ once[i].delivered = broadcasts[i].delivered
               /\ once[i].failed = broadcasts[i].failed)
                  => once[i] = broadcasts[i]

\* The aggregator has run, has counted a delivered task, and a further run
\* changes nothing.
C20_Witness ==
    /\ ~effectsPending
    /\ \E i \in 1..Len(broadcasts) :
          /\ broadcasts[i].delivered = 1
          /\ Cardinality({j \in TasksOf(broadcasts[i]) : deliveries[j].status = "delivered"}) = 1
    /\ AggregateAll(broadcasts, deliveries) = broadcasts

\* C21: a launch gives the new broadcast status `scheduled` when the form's
\* scheduledFor is set and `in_progress` when it is null, and every task
\* created by that launch carries the scheduledFor of its broadcast.
C21_LaunchStatusAndSchedule ==
    [][lastSubmit' = "launched" =>
         LET created == broadcasts'[1]
             newIds == TaskIds(deliveries') \ TaskIds(deliveries)
         IN  /\ Len(broadcasts') = Len(broadcasts) + 1
             /\ created.scheduledFor = scheduledFor
             /\ created.status = IF scheduledFor # Null THEN "scheduled" ELSE "in_progress"
             /\ newIds # {}
             /\ \A id \in newIds :
                   /\ TaskById(deliveries', id).broadcastId = created.id
                   /\ TaskById(deliveries', id).scheduledFor = created.scheduledFor]_vars

\* A launch with a schedule has just created a `scheduled` broadcast whose
\* tasks carry that schedule.
C21_Witness ==
    /\ lastSubmit = "launched"
    /\ broadcasts[1].status = "scheduled"
    /\ broadcasts[1].scheduledFor # Null
    /\ TasksOf(broadcasts[1]) # {}
    /\ \A j \in TasksOf(broadcasts[1]) :
          deliveries[j].scheduledFor = broadcasts[1].scheduledFor

\* The fields of a task that are taken at launch.
SnapshotOf(entry) ==
    <<entry.contactId, entry.contactName, entry.phone, entry.preview, entry.broadcastId,
      entry.scheduledFor>>

\* C22: the contactId, contactName, phone, preview, broadcastId and
\* scheduledFor of a task are those of the launch (the preview is the launch
\* message rendered for that contact) and no later step changes them:
\* dispatch, completion, opting out or removing the contact, deleting the
\* template.
C22_SnapshotFixedAtLaunch ==
    [][/\ \A id \in TaskIds(deliveries) :
             /\ id \in TaskIds(deliveries')
             /\ SnapshotOf(TaskById(deliveries', id)) = SnapshotOf(TaskById(deliveries, id))
       /\ lastSubmit' = "launched" =>
             \A id \in TaskIds(deliveries') \ TaskIds(deliveries) :
                 \E i \in 1..Len(contacts) :
                     SnapshotOf(TaskById(deliveries', id)) =
                         <<contacts[i].id, contacts[i].name, contacts[i].phone,
                           personaliseMessage(message, contacts[i]), broadcasts'[1].id,
                           scheduledFor>>]_vars

\* A task launched from the template for the first contact has its outcome
\* recorded and still shows the text and phone of the launch, while the
\* contact has been removed and the template deleted.
C22_Witness ==
    /\ templates = << >>
    /\ \E j \in 1..Len(deliveries) :
          /\ IsTerminal(deliveries[j].status)
          /\ deliveries[j].preview = <<"H","i"," ","D","a","n","a">>
          /\ deliveries[j].phone = SeedContacts[1].phone
          /\ \A i \in 1..Len(contacts) : contacts[i].id # deliveries[j].contactId

\* C23: in every reachable state a task has an error exactly when it is
\* `failed`, a startedAt exactly when it is `sending`, `delivered` or
\* `failed`, and a completedAt exactly when it is `delivered` or `failed`.
C23_StampsFollowStatus ==
    \A i \in 1..Len(deliveries) :
        /\ (deliveries[i].error # Undefined) <=> (deliveries[i].status = "failed")
        /\ (deliveries[i].startedAt # Undefined)
              <=> (deliveries[i].status \in {"sending", "delivered", "failed"})
        /\ (deliveries[i].completedAt # Undefined)
              <=> (deliveries[i].status \in {"delivered", "failed"})

\* A failed task carries its error and both stamps while another task is
\* `sending` with a start stamp only.
C23_Witness ==
    /\ \E i \in 1..Len(deliveries) :
          /\ deliveries[i].status = "failed"
          /\ deliveries[i].error = SendErrorMessage
          /\ deliveries[i].startedAt = IsoStamp /\ deliveries[i].completedAt = IsoStamp
    /\ \E i \in 1..Len(deliveries) :
          /\ deliveries[i].status = "sending"
          /\ deliveries[i].startedAt = IsoStamp /\ deliveries[i].completedAt = Undefined

\* C24: in every reachable state the number of tasks whose broadcastId is a
\* broadcast's id equals that broadcast's totalRecipients, and no step
\* changes the totalRecipients of an existing broadcast.
C24_TaskCountIsTotalRecipients ==
    [][/\ \A i \in 1..Len(broadcasts') :
             Cardinality({j \in 1..Len(deliveries') :
                             deliveries'[j].broadcastId = broadcasts'[i].id})
                 = broadcasts'[i].totalRecipients
       /\ \A i \in 1..Len(broadcasts) :
             \E k \in 1..Len(broadcasts') :
                 /\ broadcasts'[k].id = broadcasts[i].id
                 /\ broadcasts'[k].totalRecipients = broadcasts[i].totalRecipients]_vars

\* A broadcast launched to the one contact that was still opted in has one
\* task, totalRecipients = 1, and its outcome has been counted.
C24_Witness ==
    /\ Len(contacts) = 2
    /\ \E i \in 1..Len(broadcasts) :
          /\ broadcasts[i].totalRecipients = 1
          /\ Cardinality(TasksOf(broadcasts[i])) = 1
          /\ broadcasts[i].delivered + broadcasts[i].failed = 1

RecognizedWords == { WordFirstName, WordFullName, WordCompany, WordNotes, WordTag, WordPhone }

\* The text holds a recognized placeholder, in any letter case and with any
\* inner whitespace.
HasPlaceholder(text) ==
    \E i \in 1..Len(text), word \in RecognizedWords : MatchEnd(text, i, word) # 0

\* C25: the rendered text of a task holds no recognized placeholder, for
\* every body and every contact, contacts whose name, tags or notes are
\* placeholder text included.
C25_NoPlaceholderLeft ==
    \A i \in 1..Len(deliveries) : ~HasPlaceholder(deliveries[i].preview)

\* The text that stands for {{company}}: the first tag whose lower-case form
\* holds "company", else the first tag, else "your team".
CompanyValue(contact) ==
    IF \E i \in 1..Len(contact.tags) : Includes(ToLowerCase(contact.tags[i]), WordCompany)
    THEN contact.tags[CHOOSE i \in 1..Len(contact.tags) :
                         /\ Includes(ToLowerCase(contact.tags[i]), WordCompany)
                         /\ \A j \in 1..(i - 1) :
                               ~Includes(ToLowerCase(contact.tags[j]), WordCompany)]
    ELSE IF contact.tags # << >> THEN contact.tags[1]
    ELSE YourTeam

CompanyRendered(piece, contact) ==
    IF piece \in {TokenCompany, TokenCompanySpaced} THEN CompanyValue(contact) ELSE piece

\* C26: a launch renders every {{company}} placeholder of the body as the
\* company text of the contact, and the body "Hi {{firstName}} from
\* {{company}}" for Dana Lee with tags acme-company, vip as
\* "Hi Dana from acme-company".
C26_CompanyReplaced ==
    [][lastSubmit' = "launched" =>
         \A id \in TaskIds(deliveries') \ TaskIds(deliveries) :
             LET contact == contacts[1]
                 preview == TaskById(deliveries', id).preview
             IN  /\ \A p \in {TokenCompany, TokenCompanySpaced, TextHi} :
                       message = p => preview = CompanyRendered(p, contact)
                 /\ \A p, r \in {TokenCompany, TokenCompanySpaced, TextHi} :
                       message = p \o r
                           => preview = CompanyRendered(p, contact)
                                          \o CompanyRendered(r, contact)
                 /\ (/\ message = ScenarioBody
                     /\ contact.name = NameDanaLee
                     /\ contact.tags = <<TagAcmeCompany, TagVip>>)
                        => preview = <<"H","i"," ","D","a","n","a"," ","f","r","o","m"," ">>
                                       \o TagAcmeCompany]_vars

\* The text of a phone with every character that is not a digit left out.
DedupKey(phone) ==
    LET digits == {i \in 1..Len(phone) : phone[i] \in DigitChars}
        nth(k) == CHOOSE i \in digits : Cardinality({j \in digits : j <= i}) = k
    IN  [k \in 1..Cardinality(digits) |-> phone[nth(k)]]

\* C27: a bulk import puts in front of the contact list exactly the imported
\* contacts whose dedup key differs from that of every existing contact and
\* of every earlier contact of the batch, in batch order, and keeps the
\* existing contacts unchanged and in order; "+1 (415) 555-0138" and
\* "14155550138" imported together add one contact.
C27_BulkImportDeduplicates ==
    [][\A phones \in PhoneBatches :
          LET imported == ImportedOf(phones) IN
          handleBulkAdd(imported) =>
             LET existing == {DedupKey(contacts[i].phone) : i \in 1..Len(contacts)}
                 kept == {k \in 1..Len(imported) :
                             /\ DedupKey(imported[k].phone) \notin existing
                             /\ \A j \in 1..(k - 1) :
                                   DedupKey(imported[j].phone) # DedupKey(imported[k].phone)}
                 added == Len(contacts') - Len(contacts)
             IN  /\ added = Cardinality(kept)
                 /\ SubSeq(contacts', added + 1, Len(contacts')) = contacts
                 /\ \A n \in 1..added :
                       \E k \in kept :
                           /\ Cardinality({j \in kept : j <= k}) = n
                           /\ contacts'[n] = imported[k]
                 /\ (/\ phones = <<PhoneFormatted, PhoneDigits>>
                     /\ DedupKey(PhoneDigits) \notin existing) => added = 1]_vars

\* The list holds exactly one contact with the key 14155550138, the one
\* imported as "+1 (415) 555-0138" in front of the stored contacts.
C27_Witness ==
    /\ Len(contacts) = Len(SeedContacts) + 1
    /\ contacts[1].phone = PhoneFormatted
    /\ SubSeq(contacts, 2, Len(contacts)) = SeedContacts
    /\ nextId = FirstNewId + 2

SameNameAndBody(a, b) == a.name = b.name /\ Trim(a.body) = Trim(b.body)

\* C28: after any additions and deletions no two templates of the set have
\* the same name and the same trimmed body, and the submission of a name and
\* body that a template of the set already has leaves the set unchanged.
C28_TemplatesUnique ==
    [][/\ \A i, j \in 1..Len(templates') :
             i # j => ~SameNameAndBody(templates'[i], templates'[j])
       /\ \A name \in TemplateNameInputs, body \in TemplateBodyInputs :
             (/\ handleTemplateSubmit(name, body)
              /\ \E i \in 1..Len(templates) :
                    SameNameAndBody(templates[i], [name |-> Trim(name), body |-> body]))
                 => templates' = templates]_vars

\* A duplicate of the stored template was submitted and ignored: the set
\* is the stored template alone and a fresh id was used up.
C28_Witness ==
    /\ templates = <<StoredTemplate>>
    /\ selectedTemplateId = StoredTemplate.id + 1
    /\ nextId = StoredTemplate.id + 2
    /\ message = StoredTemplate.body

\* C29: the busy flag is set in every state in which a task is `sending`,
\* and no step moves a task to `sending` while another task is `sending`
\* without a recorded outcome.
C29_BusyFlagGuardsDispatch ==
    [][/\ Sending(deliveries') # {} => processingRef'
       /\ Sending(deliveries) # {} => EnteredSending = {}]_vars

\* C30: in every reachable state every task in `sending` has a completion
\* timer armed for it.
C30_SendingHasTimer ==
    \A i \in Sending(deliveries) :
        \E handle \in timers : handle.id = deliveries[i].id

\* The delivered and failed counts of every broadcast that has a task are
\* the numbers of its tasks in `delivered` and in `failed`.
CountsAccurate ==
    \A i \in 1..Len(broadcasts) :
        TasksOf(broadcasts[i]) # {} =>
            /\ broadcasts[i].delivered =
                  Cardinality({j \in TasksOf(broadcasts[i]) : deliveries[j].status = "delivered"})
            /\ broadcasts[i].failed =
                  Cardinality({j \in TasksOf(broadcasts[i]) : deliveries[j].status = "failed"})

\* C31: whenever the aggregator has run on the current deliveries the counts
\* of every broadcast that has a task are accurate, and counts that are not
\* accurate become accurate.
C31_CountsFollowTasks ==
    /\ [](~effectsPending => CountsAccurate)
    /\ (~CountsAccurate ~> CountsAccurate)

\* The aggregator has run on a broadcast with two tasks, one delivered and
\* one failed, and has counted each.
C31_Witness ==
    /\ ~effectsPending
    /\ CountsAccurate
    /\ \E i \in 1..Len(broadcasts) :
          /\ Cardinality(TasksOf(broadcasts[i])) = 2
          /\ broadcasts[i].delivered = 1
          /\ broadcasts[i].failed = 1

\* C32: after any single additions, bulk imports, opt-in toggles and
\* removals, no two contacts of the list have the same dedup key.
C32_NoDuplicateKeys ==
    \A i, j \in 1..Len(contacts) :
        i # j => DedupKey(contacts[i].phone) # DedupKey(contacts[j].phone)

\* The first whitespace-delimited segment of a name, or the whole name when
\* the name holds no segment.
FirstSegment(name) ==
    LET inked == {i \in 1..Len(name) : name[i] \notin WhitespaceChars}
        first == CHOOSE i \in inked : \A j \in inked : i <= j
        stops == {i \in first..Len(name) : name[i] \in WhitespaceChars}
        stop == IF stops = {} THEN Len(name) + 1
                ELSE CHOOSE i \in stops : \A j \in stops : i <= j
    IN  IF inked = {} THEN name ELSE SubSeq(name, first, stop - 1)

\* C33: a launch with the body "{{firstName}}" renders, for a contact whose
\* name holds no placeholder text, the first whitespace-delimited segment of
\* the name, whatever whitespace character delimits it.
C33_FirstNameIsFirstSegment ==
    [][(lastSubmit' = "launched" /\ message = TokenFirstName) =>
         \A id \in TaskIds(deliveries') \ TaskIds(deliveries) :
             LET contact == contacts[1] IN
             ~HasPlaceholder(contact.name)
                 => TaskById(deliveries', id).preview = FirstSegment(contact.name)]_vars

\* C34: once the effects have run, no broadcast that has a task has status
\* `scheduled`, and the aggregator writes `scheduled` to no broadcast that
\* has a task: a broadcast launched with a schedule is `in_progress` while
\* its tasks are pending and not yet due.
C34_NoScheduledAfterAggregation ==
    /\ [](~effectsPending =>
            \A i \in 1..Len(broadcasts) :
                TasksOf(broadcasts[i]) # {} => broadcasts[i].status # "scheduled")
    /\ [][Commit =>
            \A i \in 1..Len(broadcasts') :
                TasksOf(broadcasts[i]) # {} => broadcasts'[i].status # "scheduled"]_vars

\* The effects have run on a broadcast launched with a schedule: it is
\* `in_progress` and its tasks are pending and not yet due.
C34_Witness ==
    /\ ~effectsPending
    /\ \E i \in 1..Len(broadcasts) :
          /\ broadcasts[i].scheduledFor # Null
          /\ broadcasts[i].status = "in_progress"
          /\ TasksOf(broadcasts[i]) # {}
          /\ \A j \in TasksOf(broadcasts[i]) :
                /\ deliveries[j].status = "pending"
                /\ ~Eligible(deliveries[j], clock)

\* Two tasks that differ at most in status, startedAt, completedAt and error.
SameButOutcome(old, new) ==
    new = [old EXCEPT !.status = new.status, !.startedAt = new.startedAt,
                      !.completedAt = new.completedAt, !.error = new.error]

\* Two broadcasts with the same id, label, target, scheduledFor and
\* totalRecipients.
SameIdentity(old, new) ==
    /\ new.id = old.id
    /\ new.label = old.label
    /\ new.target = old.target
    /\ new.scheduledFor = old.scheduledFor
    /\ new.totalRecipients = old.totalRecipients

\* C35: a commit of the effects or the firing of a completion timer changes
\* at most one task, and of that task only status, startedAt, completedAt
\* and error; the order of the tasks and the id, label, target, scheduledFor
\* and totalRecipients of every broadcast stay as they were. A launch puts
\* its tasks after the existing ones and leaves the existing tasks and
\* broadcasts as they were.
C35_DispatchAndLaunchFrame ==
    [][/\ (Commit \/ TimerFire) =>
            /\ Len(deliveries') = Len(deliveries)
            /\ \A i \in 1..Len(deliveries) : SameButOutcome(deliveries[i], deliveries'[i])
            /\ Cardinality({i \in 1..Len(deliveries) : deliveries'[i] # deliveries[i]}) <= 1
            /\ Len(broadcasts') = Len(broadcasts)
            /\ \A i \in 1..Len(broadcasts) : SameIdentity(broadcasts[i], broadcasts'[i])
       /\ lastSubmit' = "launched" =>
            /\ Len(deliveries') > Len(deliveries)
            /\ SubSeq(deliveries', 1, Len(deliveries)) = deliveries
            /\ \A i \in (Len(deliveries) + 1)..Len(deliveries') :
                  /\ deliveries'[i].broadcastId = broadcasts'[1].id
                  /\ deliveries'[i].id \notin TaskIds(deliveries)
            /\ Len(broadcasts') = Len(broadcasts) + 1
            /\ Tail(broadcasts') = broadcasts]_vars

\* A second launch has put its tasks after those of the first, one task has
\* its outcome recorded and another is being sent while a third is pending.
C35_Witness ==
    /\ Len(broadcasts) = 2
    /\ \E i, j, k \in 1..Len(deliveries) :
          /\ i < j /\ j < k
          /\ deliveries[i].status \in {"delivered", "failed"}
          /\ deliveries[i].completedAt = IsoStamp
          /\ deliveries[j].status = "sending"
          /\ deliveries[k].status = "pending"
          /\ deliveries[k].broadcastId # deliveries[i].broadcastId

\* C36: a broadcast is created only by a submission made while the
\* acknowledgement is checked, the launch unchecks the acknowledgement, and
\* the step after a launch creates no broadcast.
C36_LaunchNeedsAcknowledgement ==
    [][/\ Len(broadcasts') > Len(broadcasts) =>
             lastSubmit' = "launched" /\ acknowledgedCompliance
       /\ lastSubmit' = "launched" =>
             Len(broadcasts') = Len(broadcasts) + 1 /\ ~acknowledgedCompliance'
       /\ lastSubmit = "launched" => Len(broadcasts') = Len(broadcasts)]_vars

\* A second launch has just gone through on an acknowledgement of its own,
\* with the message refilled from the template, and has unchecked it.
C36_Witness ==
    /\ lastSubmit = "launched"
    /\ Len(broadcasts) = 2
    /\ ~acknowledgedCompliance
    /\ message = StoredTemplate.body

\* C37: the selected template id is null or the id of a template of the
\* template set, in every state reached by template submissions,
\* selections and deletions, ignored duplicate submissions included.
C37_SelectedTemplateExists ==
    selectedTemplateId = Null
        \/ \E i \in 1..Len(templates) : templates[i].id = selectedTemplateId

====
